---------------------------- MODULE Spec2Model ----------------------------
(***************************************************************************)
(* A model of sd_webui_bayesian_merger/merger.py: the key fixers, the      *)
(* Merger's output-file bookkeeping, merge_key / merge_block and the       *)
(* staged merge.                                                           *)
(*                                                                         *)
(* Representation.                                                         *)
(*  - A parameter key is the sequence of its dot-separated segments, so    *)
(*    "model.diffusion_model.out.0.weight" is                              *)
(*    <<"model","diffusion_model","out","0","weight">>.  Python's          *)
(*    substring tests are computed over the segments; the segments the     *)
(*    model uses are listed in SegHasModel / NumVal.                       *)
(*  - A tensor is one-element, in fixed point: the integer v stands for    *)
(*    v / Scale.  The canonical position-ids tensor [0..76] is stood for   *)
(*    by its last element.  NaN is a value of its own.                     *)
(*  - A coefficient (alpha, beta) is an integer a in 0..AlphaDen standing  *)
(*    for a / AlphaDen.                                                    *)
(***************************************************************************)
EXTENDS Integers, Sequences, FiniteSets, TLC

VARIABLES
    cfg,       \* self.cfg: the configuration the Merger was built with
    pc,        \* position of the running operation
    models,    \* self.models: the roles parse_models registered
    args,      \* the arguments of the current call (weights, bases, best, ...)
    thetas,    \* merge's local thetas: role -> (key -> tensor)
    loaded,    \* thetas as load_sd_model returned them (history)
    sims,      \* merge's local sims: the trimmed similarity samples
    merged,    \* merge's local merged_model: key -> tensor
    ret,       \* what the last call returned or raised
    disk,      \* the output directory: file name -> content
    outIt      \* the iteration self.output_file is named after

vars == <<cfg, pc, models, args, thetas, loaded, sims, merged, ret, disk, outIt>>

---------------------------------------------------------------------------
(* Program constants                                                       *)

MAX_TOKENS == 77
NUM_INPUT_BLOCKS == 12
NUM_MID_BLOCK == 1
NUM_OUTPUT_BLOCKS == 12
NUM_TOTAL_BLOCKS == NUM_INPUT_BLOCKS + NUM_MID_BLOCK + NUM_OUTPUT_BLOCKS

KEY_POSITION_IDS ==
    <<"cond_stage_model", "transformer", "text_model", "embeddings", "position_ids">>

MergeModes ==
    {"add_difference", "weighted_add_difference", "weighted_sum",
     "sum_twice", "triple_sum", "weighted_double_difference"}

NUM_MODELS_NEEDED ==
    [m \in MergeModes |->
        CASE m = "weighted_sum" -> 2
          [] m = "weighted_double_difference" -> 5
          [] OTHER -> 3]

\* The three old prefixes of NAI_KEYS, each without its trailing dot; the new
\* prefix inserts "text_model" before the last segment.
NAI_KEYS ==
    {<<"cond_stage_model", "transformer", "embeddings">>,
     <<"cond_stage_model", "transformer", "encoder">>,
     <<"cond_stage_model", "transformer", "final_layer_norm">>}

NaiNew(nk) == <<nk[1], nk[2], "text_model", nk[3]>>

RoleOrder == <<"model_a", "model_b", "model_c", "model_d", "model_e">>

---------------------------------------------------------------------------
(* Bounds of the model                                                     *)

\* Coefficients range over the grid 0, 1/2^AlphaBits, ..., 1.
AlphaBits == 1
\* Iterations the output-file bookkeeping is driven through.
MaxIt == 4

RECURSIVE Pow2(_)
Pow2(n) == IF n = 0 THEN 1 ELSE 2 * Pow2(n - 1)

AlphaDen == Pow2(AlphaBits)
Scale == AlphaDen * AlphaDen
Coefs == 0..AlphaDen

---------------------------------------------------------------------------
(* Keys: segments and the substring tests of the code                      *)

\* `"model" in seg` for the segments the model uses.
SegHasModel(seg) ==
    seg \in {"model", "diffusion_model", "control_model", "cond_stage_model",
             "first_stage_model", "text_model", "model_ema"}

\* seg ends with "model": "model." can close this segment.
SegEndsWithModel(seg) ==
    seg \in {"model", "diffusion_model", "control_model", "cond_stage_model",
             "first_stage_model", "text_model"}

\* int(seg) for the segments matching \d+ .
NumVal(seg) ==
    CASE seg = "0" -> 0
      [] seg = "3" -> 3
      [] seg = "7" -> 7
      [] seg = "11" -> 11
      [] seg = "12" -> 12
      [] seg = "25" -> 25
      [] OTHER -> -1

IsDigits(seg) == NumVal(seg) >= 0

\* pat occurs in key as whole consecutive segments starting at i.
SegsAt(key, pat, i) ==
    /\ i >= 1
    /\ i + Len(pat) - 1 <= Len(key)
    /\ \A j \in 1..Len(pat) : key[i + j - 1] = pat[j]

\* KEY_POSITION_IDS in key
HasPositionIds(key) ==
    \E i \in 1..Len(key) : SegsAt(key, KEY_POSITION_IDS, i)

\* "model.diffusion_model." in key
HasBackbone(key) ==
    \E i \in 1..Len(key) :
        /\ i + 1 < Len(key)
        /\ SegEndsWithModel(key[i])
        /\ key[i + 1] = "diffusion_model"

\* "time_embed" in key
HasTimeEmbed(key) == \E i \in 1..Len(key) : key[i] = "time_embed"

\* ".out." in key
HasOut(key) == \E i \in 2..(Len(key) - 1) : key[i] = "out"

\* "first_stage_model" in key
HasFirstStage(key) == \E i \in 1..Len(key) : key[i] = "first_stage_model"

\* "model" in key
HasModel(key) == \E i \in 1..Len(key) : SegHasModel(key[i])

\* The places where re.compile(r"\.<name>\.(\d+)\.") matches in key.
BlockMatches(key, name) ==
    {i \in 2..(Len(key) - 2) : key[i] = name /\ IsDigits(key[i + 1])}

\* re.search: the leftmost match; group 1 as an int.
FirstBlockNum(key, name) ==
    LET ms == BlockMatches(key, name)
        i == CHOOSE m \in ms : \A o \in ms : m <= o
    IN NumVal(key[i + 1])

\* The output blocks counted from the middle block: NUM_MID_BLOCK left out.
WeightIndexNoMid(key) ==
    IF HasTimeEmbed(key) THEN 0
    ELSE IF HasOut(key) THEN NUM_TOTAL_BLOCKS - 1
    ELSE IF BlockMatches(key, "input_blocks") # {}
         THEN FirstBlockNum(key, "input_blocks")
    ELSE IF BlockMatches(key, "middle_block") # {} THEN NUM_INPUT_BLOCKS
    ELSE IF BlockMatches(key, "output_blocks") # {}
         THEN NUM_INPUT_BLOCKS + FirstBlockNum(key, "output_blocks")
    ELSE -1

\* weight_index of merge_key, for a key of the diffusion backbone.
WeightIndex(key) ==
    IF HasTimeEmbed(key) THEN 0
    ELSE IF HasOut(key) THEN NUM_TOTAL_BLOCKS - 1
    ELSE IF BlockMatches(key, "input_blocks") # {}
         THEN FirstBlockNum(key, "input_blocks")
    ELSE IF BlockMatches(key, "middle_block") # {} THEN NUM_INPUT_BLOCKS
    ELSE IF BlockMatches(key, "output_blocks") # {}
         THEN NUM_INPUT_BLOCKS + NUM_MID_BLOCK + FirstBlockNum(key, "output_blocks")
    ELSE -1

---------------------------------------------------------------------------
(* Tensors                                                                 *)

NaN == 0 - Pow2(30)

Abs(x) == IF x < 0 THEN 0 - x ELSE x

RECURSIVE BitLen(_)
BitLen(n) == IF n = 0 THEN 0 ELSE 1 + BitLen(n \div 2)

\* x rounded to a binary significand of `bits` bits, ties to even.
RoundToBits(x, bits) ==
    IF x = NaN \/ x = 0 THEN x
    ELSE LET m == Abs(x)
             e == BitLen(m)
         IN IF e <= bits THEN x
            ELSE LET step == Pow2(e - bits)
                     q == m \div step
                     r == m % step
                     up == \/ 2 * r > step
                           \/ 2 * r = step /\ q % 2 = 1
                     res == (IF up THEN q + 1 ELSE q) * step
                 IN IF x < 0 THEN 0 - res ELSE res

\* tensor.half(): float16 has an 11-bit significand.
Half(x) == RoundToBits(x, 11)

\* tensor.to(torch.float32): a 24-bit significand.
ToFloat32(x) == RoundToBits(x, 24)

\* torch.tensor([list(range(MAX_TOKENS))], dtype=torch.int64), by its last element.
CanonIds == (MAX_TOKENS - 1) * Scale

\* `if not best or self.cfg.best_precision == "16": x = x.half()`
Narrow(c, best, x) == IF ~best \/ c.best_precision = "16" THEN Half(x) ELSE x


---------------------------------------------------------------------------
(* Cosine mode: similarity of two one-element tensors                      *)

Sign(x) == IF x > 0 THEN 1 ELSE IF x < 0 THEN 0 - 1 ELSE 0

\* (simab + magnitude_similarity) / 2.0 of merge / merge_block, in units of 1.
\* For one-element tensors CosineSimilarity(dim=0) is the sign of the product
\* (0 when a norm is 0, the denominator being clamped to eps), and
\* dot / (norm * norm) is the same sign, or 0/0 = NaN when a norm is 0.
CombinedSimilarity(t0, t1) ==
    IF t0 = NaN \/ t1 = NaN \/ ToFloat32(t0) = 0 \/ ToFloat32(t1) = 0 THEN NaN
    ELSE Sign(ToFloat32(t0)) * Sign(ToFloat32(t1))

SeqMin(s) == CHOOSE x \in {s[i] : i \in 1..Len(s)} : \A j \in 1..Len(s) : x <= s[j]
SeqMax(s) == CHOOSE x \in {s[i] : i \in 1..Len(s)} : \A j \in 1..Len(s) : x >= s[j]

Clip(x, lo, hi) == IF x < lo THEN lo ELSE IF x > hi THEN hi ELSE x

\* k of merge_block, in units of 1/AlphaDen:
\*   k = (combined_similarity - sims.min()) / (sims.max() - sims.min())
\*   k = k - alpha;  k = k.clip(min=.0, max=1.)
\* A zero denominator gives 0/0 = NaN or x/0 = +-inf, and inf clips to a bound.
CosineK(c, s, alpha) ==
    IF c = NaN THEN NaN
    ELSE LET lo == SeqMin(s)
             hi == SeqMax(s)
         IN IF hi = lo
            THEN (IF c = lo THEN NaN ELSE IF c > lo THEN AlphaDen ELSE 0)
            ELSE Clip(((c - lo) * AlphaDen) \div (hi - lo) - alpha, 0, AlphaDen)

\* (1 - k) * t0 + k * t1
Lerp(k, t0, t1) ==
    IF k = NaN \/ t0 = NaN \/ t1 = NaN THEN NaN
    ELSE ((AlphaDen - k) * t0 + k * t1) \div AlphaDen

\* scipy.ndimage.median_filter(size=3) then gaussian_filter(sigma=1) of
\* t1.to(torch.float32): on a one-element array (boundary mode reflect) every
\* window holds the element alone, and the normalised kernel returns it.
Filtered(t1) == ToFloat32(t1)

---------------------------------------------------------------------------
(* Merger.merge_block                                                      *)

Ok(v) == [kind |-> "ok", val |-> v]
Raise(e) == [kind |-> e, val |-> 0]

\* Lines 262-276: reached by every mode but non-cosine weighted_sum /
\* add_difference, and by cosine weighted_sum when its inner `if` fails.
MergeBlockTail(c, cb, th, key, t0, t1) ==
    IF "model_c" \notin DOMAIN th THEN Raise("KeyError")
    ELSE LET t2 == th["model_c"][key]
             alpha == cb["alpha"]
             beta == cb["beta"]
             D == AlphaDen
         IN CASE c.merge_mode = "weighted_add_difference" ->
                   Ok(((D - alpha) * t0 + alpha * (t1 - t2)) \div D)
              [] c.merge_mode = "sum_twice" ->
                   Ok(((D - beta) * ((D - alpha) * t0 + alpha * t1) + beta * D * t2)
                        \div (D * D))
              [] c.merge_mode = "triple_sum" ->
                   Ok(((D - alpha - beta) * t0 + alpha * t1 + beta * t2) \div D)
              [] c.merge_mode = "weighted_double_difference" ->
                   LET t3 == th["model_d"][key]
                       t4 == th["model_e"][key]
                   IN Ok(((D - alpha) * D * t0
                          + alpha * ((D - beta) * (t1 - t2) + beta * (t3 - t4)))
                         \div (D * D))
              \* no branch returns: merge_key calls .half() on None
              [] OTHER -> Raise("AttributeError")

\* The two sources swapped: alpha * t0 + (1 - alpha) * t1
WeightedSumSwapped(alpha, t0, t1) ==
    (alpha * t0 + (AlphaDen - alpha) * t1) \div AlphaDen

\* Line 258: (1 - alpha) * t0 + alpha * t1
WeightedSum(alpha, t0, t1) == ((AlphaDen - alpha) * t0 + alpha * t1) \div AlphaDen

MergeBlock(c, cb, th, key, s) ==
    LET t0 == th["model_a"][key]
        t1 == th["model_b"][key]
        alpha == cb["alpha"]
        D == AlphaDen
    IN IF c.cosine_mode
       THEN IF c.merge_mode = "weighted_sum"
            THEN IF HasFirstStage(key) THEN Ok(t0)
                 ELSE IF HasModel(key) /\ key \in DOMAIN th["model_b"]
                      THEN (IF Len(s) = 0
                            \* sims.min() of an empty array
                            THEN Raise("ValueError")
                            ELSE Ok(Lerp(CosineK(CombinedSimilarity(t0, t1), s, alpha),
                                         t0, t1)))
                      ELSE MergeBlockTail(c, cb, th, key, t0, t1)
            ELSE IF c.merge_mode = "add_difference"
                 THEN Ok((D * t0 + alpha * Filtered(t1)) \div D)
                 ELSE MergeBlockTail(c, cb, th, key, t0, t1)
       ELSE IF c.merge_mode = "weighted_sum"
            THEN Ok(WeightedSum(alpha, t0, t1))
            ELSE IF c.merge_mode = "add_difference"
                 THEN Ok((D * t0 + alpha * (t1 - th["model_c"][key])) \div D)
                 ELSE MergeBlockTail(c, cb, th, key, t0, t1)

---------------------------------------------------------------------------
(* Merger.merge_key                                                        *)

\* The outcome of a call: kind is "ok" (a (key, tensor) pair), "skip" (None)
\* or the exception raised; thetas is the caller's dict after the call;
\* widx is weight_index where it was computed, -2 where it was not; raw is
\* what merge_block returned, before the narrowing.
Outcome(k, v, th, w, raw) ==
    [kind |-> k, val |-> v, thetas |-> th, widx |-> w, raw |-> raw]

NoBlock == [kind |-> "uncalled", val |-> 0]

\* An index past the last block clamped to it instead of raising.
MergeKeyBodyClamped(c, key, th, weights, bases, best, s) ==
    LET backbone == HasBackbone(key)
        w == IF backbone THEN WeightIndex(key) ELSE -2
        widx == IF w >= NUM_TOTAL_BLOCKS THEN NUM_TOTAL_BLOCKS - 1 ELSE w
        cb == IF widx >= 0
              THEN [g \in DOMAIN weights |-> weights[g][widx + 1]]
              ELSE bases
        r == MergeBlock(c, cb, th, key, s)
    IN IF r.kind = "ok"
       THEN Outcome("ok", Narrow(c, best, r.val), th, widx, r)
       ELSE Outcome(r.kind, 0, th, widx, r)

\* Lines 195-228: the part after the position-ids and the availability tests.
MergeKeyBody(c, key, th, weights, bases, best, s) ==
    LET backbone == HasBackbone(key)
        widx == IF backbone THEN WeightIndex(key) ELSE -2
    IN IF widx >= NUM_TOTAL_BLOCKS THEN Outcome("ValueError", 0, th, widx, NoBlock)
       ELSE LET cb == IF widx >= 0
                      THEN [g \in DOMAIN weights |-> weights[g][widx + 1]]
                      ELSE bases
                r == MergeBlock(c, cb, th, key, s)
            IN IF r.kind = "ok"
               THEN Outcome("ok", Narrow(c, best, r.val), th, widx, r)
               ELSE Outcome(r.kind, 0, th, widx, r)

\* A key some model lacks emitted from model_a instead of skipped.
MergeKeyKeepsA(c, key, th, weights, bases, best, s) ==
    IF HasPositionIds(key) /\ c.skip_position_ids = 1
    THEN Outcome("ok", Narrow(c, best, th["model_a"][key]), th, -2, NoBlock)
    ELSE IF HasPositionIds(key) /\ c.skip_position_ids = 2
    THEN LET th2 == [th EXCEPT !["model_a"] =
                        [k \in DOMAIN th["model_a"] |->
                            IF k = key THEN CanonIds ELSE th["model_a"][k]]]
         IN Outcome("ok", Narrow(c, best, CanonIds), th2, -2, NoBlock)
    ELSE IF \E r \in DOMAIN th : key \notin DOMAIN th[r]
    THEN Outcome("ok", Narrow(c, best, th["model_a"][key]), th, -2, NoBlock)
    ELSE MergeKeyBody(c, key, th, weights, bases, best, s)

MergeKey(c, key, th, weights, bases, best, s) ==
    IF HasPositionIds(key) /\ c.skip_position_ids = 1
    THEN Outcome("ok", Narrow(c, best, th["model_a"][key]), th, -2, NoBlock)
    ELSE IF HasPositionIds(key) /\ c.skip_position_ids = 2
    THEN LET th2 == [th EXCEPT !["model_a"] =
                        [k \in DOMAIN th["model_a"] |->
                            IF k = key THEN CanonIds ELSE th["model_a"][k]]]
         IN Outcome("ok", Narrow(c, best, CanonIds), th2, -2, NoBlock)
    ELSE IF \E r \in DOMAIN th : key \notin DOMAIN th[r]
    THEN Outcome("skip", 0, th, -2, NoBlock)
    ELSE MergeKeyBody(c, key, th, weights, bases, best, s)


---------------------------------------------------------------------------
(* Inputs                                                                  *)

EmptyMap == [k \in {} |-> 0]

ExtraRoles == {"model_c", "model_d", "model_e"}

\* cfg.model_c .. cfg.model_e: "unset" (not in cfg), "nofile" (a path that
\* does not exist) or "ok".
AllExtras == [m \in ExtraRoles |-> "ok"]

Cfg(mode, cosine, skip, precision, format, extra) ==
    [merge_mode |-> mode, cosine_mode |-> cosine, skip_position_ids |-> skip,
     best_precision |-> precision, best_format |-> format, extra |-> extra]

\* The roles of thetas when Stage 2 runs: the NUM_MODELS_NEEDED first roles,
\* without model_c once Stage 0 has deleted it.
Stage2Roles(c) ==
    {RoleOrder[i] : i \in 1..NUM_MODELS_NEEDED[c.merge_mode]}
        \ (IF c.cosine_mode /\ c.merge_mode = "add_difference"
           THEN {"model_c"} ELSE {})

\* weights and bases as the optimiser hands them over: per coefficient a list
\* of NUM_TOTAL_BLOCKS values, and a scalar.  The lists differ from block to
\* block and from the scalar.
WeightsOf(a) ==
    [g \in {"alpha", "beta"} |->
        [i \in 1..NUM_TOTAL_BLOCKS |->
            (a + i + (IF g = "beta" THEN 1 ELSE 0)) % (AlphaDen + 1)]]

BasesOf(a) == [alpha |-> a, beta |-> AlphaDen - a]

Pending == [kind |-> "pending", val |-> 0, widx |-> -2, raw |-> NoBlock]

\* Keys of a checkpoint, by kind.
K_in7 == <<"model", "diffusion_model", "input_blocks", "7", "0", "weight">>
K_in11 == <<"model", "diffusion_model", "input_blocks", "11", "0", "weight">>
K_in25 == <<"model", "diffusion_model", "input_blocks", "25", "0", "weight">>
K_mid == <<"model", "diffusion_model", "middle_block", "0", "weight">>
K_out3 == <<"model", "diffusion_model", "output_blocks", "3", "0", "weight">>
K_out12 == <<"model", "diffusion_model", "output_blocks", "12", "0", "weight">>
K_time == <<"model", "diffusion_model", "time_embed", "0", "weight">>
K_final == <<"model", "diffusion_model", "out", "0", "weight">>
K_label == <<"model", "diffusion_model", "label_emb", "0", "weight">>
K_in7time == <<"model", "diffusion_model", "input_blocks", "7", "time_embed", "weight">>
K_out3out == <<"model", "diffusion_model", "output_blocks", "3", "out", "weight">>
K_ctrl7 == <<"control_model", "input_blocks", "7", "0", "weight">>
K_ctrlTime == <<"control_model", "time_embed", "0", "weight">>
K_vae == <<"first_stage_model", "decoder", "conv_in", "weight">>
K_pos == KEY_POSITION_IDS
K_clip == <<"cond_stage_model", "transformer", "text_model", "encoder", "weight">>
K_plain == <<"alphas_cumprod">>
K_nai == <<"cond_stage_model", "transformer", "embeddings", "token_embedding", "weight">>
K_naiPos == <<"cond_stage_model", "transformer", "embeddings", "position_ids">>

KeyPool ==
    {K_in7, K_in11, K_in25, K_mid, K_out3, K_out12, K_time, K_final, K_label,
     K_in7time, K_out3out, K_ctrl7, K_ctrlTime, K_vae, K_pos, K_clip, K_plain}

\* Tensor values of model_a and of model_b (2049 and 4099 are no float16).
ValsA == {1 * Scale, 2049 * Scale}
ValsB == {(0 - 3) * Scale, 4099 * Scale}
ValOther(r) ==
    CASE r = "model_c" -> 5 * Scale
      [] r = "model_d" -> 9 * Scale
      [] OTHER -> 2 * Scale

\* Trimmed similarity samples Stage 1 can hand to Stage 2.
SimsPool == {<<1>>, <<0 - 1, 0 - 1, 1, 1>>}

---------------------------------------------------------------------------
(* merge_key as a function of its inputs                                   *)

InitKey ==
    /\ \E mode \in MergeModes, cosine \in BOOLEAN, skip \in 0..2,
          precision \in {"16", "32"} :
          cfg = Cfg(mode, cosine, skip, precision, "safetensors", AllExtras)
    /\ models = Stage2Roles(cfg)
    /\ \E key \in KeyPool, a \in Coefs, best \in BOOLEAN :
          args = [key |-> key, weights |-> WeightsOf(a), bases |-> BasesOf(a),
                  best |-> best]
    /\ \E t0 \in ValsA, t1 \in ValsB, miss \in (Stage2Roles(cfg) \ {"model_a"}) \cup {"none"} :
          thetas = [r \in Stage2Roles(cfg) |->
                      IF r = miss THEN EmptyMap
                      ELSE (args.key :> (CASE r = "model_a" -> t0
                                           [] r = "model_b" -> t1
                                           [] OTHER -> ValOther(r)))]
    /\ loaded = thetas
    /\ sims \in (IF cfg.cosine_mode THEN SimsPool ELSE {<<>>})
    /\ merged = EmptyMap
    /\ ret = Pending
    /\ pc = "call"
    /\ disk = EmptyMap
    /\ outIt = 0

CallMergeKey ==
    /\ pc = "call"
    /\ LET o == MergeKey(cfg, args.key, thetas, args.weights, args.bases, args.best, sims)
       IN /\ ret' = [kind |-> o.kind, val |-> o.val, widx |-> o.widx, raw |-> o.raw]
          /\ thetas' = o.thetas
    /\ pc' = "returned"
    /\ UNCHANGED <<cfg, models, args, loaded, sims, merged, disk, outIt>>

NextKey == CallMergeKey

SpecKey == InitKey /\ [][NextKey]_vars


---------------------------------------------------------------------------
(* Properties of merge_key and merge_block (SpecKey)                       *)

Returned == pc = "returned"
InA(key) == key \in DOMAIN loaded["model_a"]
InB(key) == key \in DOMAIN loaded["model_b"]
T0 == loaded["model_a"][args.key]
T1 == loaded["model_b"][args.key]

\* The position-ids key under a non-zero skip_position_ids policy.
PosSpecial(key) == HasPositionIds(key) /\ cfg.skip_position_ids # 0

\* The coefficient the claims name: the per-block weight at the key's block
\* index for a backbone key with an index, the scalar base otherwise.
ResolvedCoef(g) ==
    IF HasBackbone(args.key) /\ WeightIndex(args.key) \in 0..(NUM_TOTAL_BLOCKS - 1)
    THEN args.weights[g][WeightIndex(args.key) + 1]
    ELSE args.bases[g]

IllegalIndex(key) == HasBackbone(key) /\ WeightIndex(key) >= NUM_TOTAL_BLOCKS

C1_Case ==
    /\ Returned
    /\ ~cfg.cosine_mode
    /\ cfg.merge_mode = "weighted_sum"
    /\ InA(args.key) /\ InB(args.key)
    /\ ~PosSpecial(args.key)

\* C1 as stated: in non-cosine weighted_sum mode, for every key of both
\* models other than the special-cased position-ids key, merge_key produces
\* (1-alpha)*t0 + alpha*t1 for the resolved alpha: t0 at alpha = 0 and t1 at
\* alpha = 1.
C1_AsStated ==
    C1_Case =>
        /\ ret.kind = "ok"
        /\ ret.val = Lerp(ResolvedCoef("alpha"), T0, T1)
        /\ (ResolvedCoef("alpha") = 0 => ret.val = T0)
        /\ (ResolvedCoef("alpha") = AlphaDen => ret.val = T1)

\* C1 amended: the same, except that a backbone key whose block index is
\* above 24 makes merge_key raise ValueError, and that the product is
\* narrowed to half precision unless best is set with a best_precision other
\* than "16".
C1_WeightedSum ==
    C1_Case =>
        IF IllegalIndex(args.key)
        THEN ret.kind = "ValueError"
        ELSE /\ ret.kind = "ok"
             /\ ret.val = Narrow(cfg, args.best, Lerp(ResolvedCoef("alpha"), T0, T1))
             /\ (ResolvedCoef("alpha") = 0 => ret.val = Narrow(cfg, args.best, T0))
             /\ (ResolvedCoef("alpha") = AlphaDen => ret.val = Narrow(cfg, args.best, T1))

\* A backbone key blended half and half with its per-block weight, the
\* result being neither source.
C1_Witness ==
    /\ C1_Case
    /\ args.key = K_in7
    /\ ret.kind = "ok"
    /\ ResolvedCoef("alpha") = args.weights["alpha"][8]
    /\ ResolvedCoef("alpha") # args.bases["alpha"]
    /\ 2 * ResolvedCoef("alpha") = AlphaDen
    /\ ret.val = Half((T0 + T1) \div 2)
    /\ ret.val \notin {T0, T1}

\* merge_key got as far as resolving the block index (lines 195-218).
Resolving ==
    /\ Returned
    /\ ret.kind # "skip"
    /\ ~PosSpecial(args.key)

\* key contains `.<name>.<num>.`
ContainsBlock(key, name, num) ==
    \E i \in 2..(Len(key) - 2) : key[i] = name /\ key[i + 1] = num

\* The leftmost `.<name>.N.` of key has N = num.
FirstBlockIs(key, name, num) ==
    \E i \in BlockMatches(key, name) :
        /\ key[i + 1] = num
        /\ \A j \in BlockMatches(key, name) : i <= j

C9_Case ==
    /\ Returned
    /\ cfg.cosine_mode
    /\ cfg.merge_mode = "weighted_sum"
    /\ InA(args.key) /\ InB(args.key)
    /\ ~PosSpecial(args.key)
    /\ ~IllegalIndex(args.key)

\* C9: in cosine weighted_sum mode merge_block returns, for a key of both
\* models, t0 if the key contains `first_stage_model`, and otherwise
\* (1-k)*t0 + k*t1 for the similarity-derived k, raising no error.
C9_CosineWeightedSum ==
    C9_Case =>
        /\ ret.raw.kind = "ok"
        /\ ret.raw.val =
             IF HasFirstStage(args.key) THEN T0
             ELSE Lerp(CosineK(CombinedSimilarity(T0, T1), sims, ResolvedCoef("alpha")),
                       T0, T1)


---------------------------------------------------------------------------
(* Python dicts in insertion order: a sequence of <<key, value>> entries   *)

DictKeys(d) == {d[i][1] : i \in 1..Len(d)}

DictIndex(d, k) == CHOOSE i \in 1..Len(d) : d[i][1] = k

DictGet(d, k) == d[DictIndex(d, k)][2]

\* d[k] = v: in place for a key of d, appended for a new one.
DictSet(d, k, v) ==
    IF k \in DictKeys(d)
    THEN [d EXCEPT ![DictIndex(d, k)] = <<k, v>>]
    ELSE Append(d, <<k, v>>)

\* del d[k]
DictDel(d, k) ==
    LET i == DictIndex(d, k)
    IN SubSeq(d, 1, i - 1) \o SubSeq(d, i + 1, Len(d))

\* d as a function from its keys.
DictMap(d) == [k \in DictKeys(d) |-> DictGet(d, k)]

---------------------------------------------------------------------------
(* fix_clip, fix_key, fix_nai_keys, fix_model                              *)

FixClip(model) ==
    IF KEY_POSITION_IDS \in DictKeys(model)
    THEN DictSet(model, KEY_POSITION_IDS, CanonIds)
    ELSE model

\* key.startswith(nk), nk ending in a dot
StartsWithPrefix(key, nk) == Len(key) > Len(nk) /\ SegsAt(key, nk, 1)

\* key.replace(nk, NAI_KEYS[nk]): every occurrence, left to right.
RECURSIVE ReplaceFrom(_, _, _)
ReplaceFrom(key, nk, i) ==
    IF i > Len(key) THEN <<>>
    ELSE IF SegsAt(key, nk, i) /\ i + Len(nk) - 1 < Len(key)
         THEN NaiNew(nk) \o ReplaceFrom(key, nk, i + Len(nk))
         ELSE <<key[i]>> \o ReplaceFrom(key, nk, i + 1)

ReplaceAll(key, nk) == ReplaceFrom(key, nk, 1)

IsNaiKey(key) == \E nk \in NAI_KEYS : StartsWithPrefix(key, nk)

\* fix_key: a key starts with at most one of the three prefixes.
FixKey(model, key) ==
    IF IsNaiKey(key)
    THEN LET nk == CHOOSE n \in NAI_KEYS : StartsWithPrefix(key, n)
         IN DictDel(DictSet(model, ReplaceAll(key, nk), DictGet(model, key)), key)
    ELSE model

\* fix_nai_keys: `for k in model: model = fix_key(model, k)` changes the dict
\* it iterates.  CPython's iterator walks the entries by position and counts
\* the keys it has yet to yield:
\*   - a rename onto a key already there shrinks the dict, and the next step
\*     raises RuntimeError (dictionary changed size during iteration);
\*   - any other rename leaves a hole and appends the new key, so after the
\*     keys the loop started with one more entry shows up and the step raises
\*     RuntimeError (dictionary keys changed during iteration).
\* The dict keeps what was renamed before the error.  (No rehash happens on
\* the way: the dicts of the model have spare entries.)
RECURSIVE FixNaiLoop(_, _, _, _)
FixNaiLoop(model, ks, i, renamed) ==
    IF i > Len(ks)
    THEN [kind |-> IF renamed THEN "RuntimeError" ELSE "ok", model |-> model]
    ELSE LET k == ks[i]
         IN IF ~IsNaiKey(k) THEN FixNaiLoop(model, ks, i + 1, renamed)
            ELSE LET nk == CHOOSE n \in NAI_KEYS : StartsWithPrefix(k, n)
                 IN IF ReplaceAll(k, nk) \in DictKeys(model)
                    THEN [kind |-> "RuntimeError", model |-> FixKey(model, k)]
                    ELSE FixNaiLoop(FixKey(model, k), ks, i + 1, TRUE)

FixNaiKeys(model) ==
    FixNaiLoop(model, [i \in 1..Len(model) |-> model[i][1]], 1, FALSE)

\* fix_model: fix_clip runs only if fix_nai_keys returned.
FixModel(model) ==
    LET r == FixNaiKeys(model)
    IN IF r.kind = "ok"
       THEN [kind |-> "ok", model |-> FixClip(r.model)]
       ELSE r

---------------------------------------------------------------------------
(* fix_model as a function of its input (SpecFix)                          *)

\* Entries of the mappings fix_model is applied to.
MaxDictLen == 2

K_textTok ==
    <<"cond_stage_model", "transformer", "text_model", "embeddings",
      "token_embedding", "weight">>

FixPool == {K_nai, K_naiPos, K_textTok, K_pos, K_in7}

FixVals == {3 * Scale, CanonIds}

RECURSIVE DictsOfLen(_)
DictsOfLen(n) ==
    IF n = 0 THEN {<<>>}
    ELSE {Append(d, <<k, v>>) :
            d \in DictsOfLen(n - 1), k \in FixPool, v \in FixVals}

Dicts == {d \in UNION {DictsOfLen(n) : n \in 0..MaxDictLen} :
            Cardinality(DictKeys(d)) = Len(d)}

NoCall == [kind |-> "pending", first |-> "pending"]

InitFix ==
    /\ merged \in Dicts
    /\ loaded = merged
    /\ ret = NoCall
    /\ pc = "fix_0"
    /\ cfg = Cfg("weighted_sum", FALSE, 0, "16", "safetensors", AllExtras)
    /\ models = {}
    /\ args = EmptyMap
    /\ thetas = EmptyMap
    /\ sims = <<>>
    /\ disk = EmptyMap
    /\ outIt = 0

\* The first application of fix_model to the mapping; loaded keeps what it
\* left.
ApplyFixModel ==
    /\ pc = "fix_0"
    /\ LET r == FixModel(merged)
       IN /\ merged' = r.model
          /\ loaded' = r.model
          /\ ret' = [kind |-> r.kind, first |-> r.kind]
    /\ pc' = "fix_1"
    /\ UNCHANGED <<cfg, models, args, thetas, sims, disk, outIt>>

\* The second application, to what the first left.
ApplyFixModelAgain ==
    /\ pc = "fix_1"
    /\ LET r == FixModel(merged)
       IN /\ merged' = r.model
          /\ ret' = [kind |-> r.kind, first |-> ret.first]
    /\ pc' = "fix_2"
    /\ UNCHANGED <<cfg, models, args, thetas, loaded, sims, disk, outIt>>

NextFix == ApplyFixModel \/ ApplyFixModelAgain

SpecFix == InitFix /\ [][NextFix]_vars

\* C5: fix_model is idempotent: for every mapping, applying it twice yields
\* the mapping that applying it once yields.
C5_Idempotent ==
    pc = "fix_2" =>
        /\ ret.first = "ok"
        /\ ret.kind = "ok"
        /\ merged = loaded

\* C5, the mapping alone: a second application changes nothing the first
\* left, whether or not the first returned.
C5_SecondChangesNothing == pc = "fix_2" => merged = loaded


---------------------------------------------------------------------------
(* Output files: create_model_out_name, remove_previous_ckpt,              *)
(* keep_best_ckpt and the save step of merge (SpecFiles)                   *)

\* self.output_file for iteration n ("...-it_<n>.safetensors") and
\* self.best_output_file ("...-best-<bits>bit.<format>").
WorkFile(n) == <<"it", n>>
BestFile == <<"best", 0>>

WorkFiles(d) == {f \in DOMAIN d : f[1] = "it"}

\* path.unlink() / a write / path.rename(target) on the directory d.
Unlink(d, f) == [g \in DOMAIN d \ {f} |-> d[g]]
WriteFile(d, f, content) == [g \in DOMAIN d \cup {f} |-> IF g = f THEN content ELSE d[g]]
Rename(d, f, target) == Unlink(WriteFile(d, target, d[f]), f)

\* The driver's state between calls: the iteration it is in, and whether the
\* iteration's working file is yet to be written.
Driver(it, phase) == [it |-> it, phase |-> phase]

FileRet(op, kind, before) == [op |-> op, kind |-> kind, before |-> before]

InitFiles ==
    /\ cfg \in {Cfg("weighted_sum", FALSE, 0, p, f, AllExtras) :
                  p \in {"16", "32"}, f \in {"safetensors", "ckpt"}}
    /\ models = {"model_a", "model_b"}
    \* __post_init__: create_model_out_name(0); create_best_model_out_name()
    /\ outIt = 0
    \* a best file of an earlier run may be there
    /\ disk \in {EmptyMap, (BestFile :> 0)}
    /\ args = Driver(0, "idle")
    /\ ret = FileRet("none", "ok", disk)
    /\ pc = "ready"
    /\ thetas = EmptyMap
    /\ loaded = EmptyMap
    /\ sims = <<>>
    /\ merged = <<>>

\* remove_previous_ckpt unlinking nothing.
RemovePreviousCkptKeep(d, out, it) ==
    [kind |-> "ok", disk |-> d, outIt |-> it]

\* remove_previous_ckpt(current_it) on directory d with self.output_file
\* named after iteration out.
RemovePreviousCkptOn(d, out, it) ==
    IF it > 1 /\ WorkFile(out) \in DOMAIN d
    THEN IF WorkFile(it - 1) \in DOMAIN d
         THEN [kind |-> "ok", disk |-> Unlink(d, WorkFile(it - 1)), outIt |-> it]
         ELSE [kind |-> "FileNotFoundError", disk |-> d, outIt |-> it - 1]
    ELSE [kind |-> "ok", disk |-> d, outIt |-> it]

\* The driver opens the next iteration with remove_previous_ckpt(it).
RemovePreviousCkpt ==
    /\ pc = "ready"
    /\ args.phase = "idle"
    /\ args.it < MaxIt
    /\ LET it == args.it + 1
           r == RemovePreviousCkptOn(disk, outIt, it)
       IN /\ disk' = r.disk
          /\ outIt' = r.outIt
          /\ ret' = FileRet("remove_previous_ckpt", r.kind, disk)
          /\ pc' = IF r.kind = "ok" THEN "ready" ELSE "raised"
          /\ args' = Driver(it, "named")
    /\ UNCHANGED <<cfg, models, thetas, loaded, sims, merged>>

\* merge(weights, bases) with best = False reaches its save step and writes
\* self.output_file (lines 363-369).
SaveWorking ==
    /\ pc = "ready"
    /\ args.phase = "named"
    /\ disk' = WriteFile(disk, WorkFile(outIt), args.it)
    /\ ret' = FileRet("merge", "ok", disk)
    /\ args' = Driver(args.it, "idle")
    /\ UNCHANGED <<cfg, pc, models, thetas, loaded, sims, merged, outIt>>

\* merge raises before its save step: nothing is written and the run ends.
MergeRaises ==
    /\ pc = "ready"
    /\ args.phase = "named"
    /\ ret' = FileRet("merge", "raised", disk)
    /\ pc' = "raised"
    /\ UNCHANGED <<cfg, models, args, thetas, loaded, sims, merged, disk, outIt>>

\* merge(weights, bases, best=True) reaches its save step and writes
\* self.best_output_file (lines 353-362).
SaveBest ==
    /\ pc = "ready"
    /\ args.phase = "idle"
    /\ args.it >= 1
    /\ disk' = WriteFile(disk, BestFile, 100 + args.it)
    /\ ret' = FileRet("merge_best", "ok", disk)
    /\ UNCHANGED <<cfg, pc, models, args, thetas, loaded, sims, merged, outIt>>

\* keep_best_ckpt() on directory d.
KeepBestCkptOn(d, out) ==
    LET d1 == IF BestFile \in DOMAIN d THEN Unlink(d, BestFile) ELSE d
    IN IF WorkFile(out) \in DOMAIN d1
       THEN [kind |-> "ok", disk |-> Rename(d1, WorkFile(out), BestFile)]
       ELSE [kind |-> "FileNotFoundError", disk |-> d1]

\* keep_best_ckpt is a method of the Merger: a caller may call it whenever
\* the Merger exists.
KeepBestCkpt ==
    /\ pc = "ready"
    /\ LET r == KeepBestCkptOn(disk, outIt)
       IN /\ disk' = r.disk
          /\ ret' = FileRet("keep_best_ckpt", r.kind, disk)
          /\ pc' = IF r.kind = "ok" THEN "ready" ELSE "raised"
    /\ UNCHANGED <<cfg, models, args, thetas, loaded, sims, merged, outIt>>

NextFiles ==
    \/ RemovePreviousCkpt
    \/ SaveWorking
    \/ MergeRaises
    \/ SaveBest
    \/ KeepBestCkpt

SpecFiles == InitFiles /\ [][NextFiles]_vars

\* C6: through iterations 1, 2, ... that each call remove_previous_ckpt(it)
\* and then write the working file, at most one working file is on disk
\* once iteration it >= 1 has completed.
C6_OneWorkingFile ==
    (args.it >= 1 /\ args.phase = "idle") => Cardinality(WorkFiles(disk)) <= 1

\* Iteration 3 has just written its file, and it is the only working file.
C6_Witness ==
    /\ args.it = 3
    /\ args.phase = "idle"
    /\ ret.op = "merge"
    /\ outIt = 3
    /\ WorkFiles(disk) = {WorkFile(3)}
    /\ disk[WorkFile(3)] = 3

\* C7: after any call of keep_best_ckpt the best file exists and holds what
\* the working file held, the working file is gone, and a best file that
\* was there before the call has not been lost.
C7_AtomicPromotion ==
    ret.op = "keep_best_ckpt" =>
        /\ BestFile \in DOMAIN disk
        /\ WorkFile(outIt) \in DOMAIN ret.before
        /\ disk[BestFile] = ret.before[WorkFile(outIt)]
        /\ WorkFile(outIt) \notin DOMAIN disk
        /\ (BestFile \in DOMAIN ret.before => BestFile \in DOMAIN disk)


---------------------------------------------------------------------------
(* Merger.parse_models                                                     *)

\* The loop of lines 105-118 from model RoleOrder[i] on, with the roles reg
\* registered so far (seen_models is their number).
RECURSIVE ParseLoop(_, _, _)
ParseLoop(c, i, reg) ==
    IF i > Len(RoleOrder) THEN reg
    ELSE IF Cardinality(reg) = NUM_MODELS_NEEDED[c.merge_mode] THEN reg
    ELSE IF c.extra[RoleOrder[i]] # "ok" THEN reg
    ELSE ParseLoop(c, i + 1, reg \cup {RoleOrder[i]})

\* parse_models: the registered roles, or sys.exit() on a count that does
\* not match the merge mode.
ParseModels(c) ==
    LET reg == ParseLoop(c, 3, {"model_a", "model_b"})
    IN IF Cardinality(reg) = NUM_MODELS_NEEDED[c.merge_mode]
       THEN [kind |-> "ok", models |-> reg]
       ELSE [kind |-> "SystemExit", models |-> reg]

---------------------------------------------------------------------------
(* Merger.merge, stage by stage                                            *)

\* The keys of the checkpoints of the model, in the order every checkpoint
\* lists the ones it holds.
KeyOrder == <<K_in7, K_pos, K_nai, K_in25, K_plain>>

RECURSIVE OrderedFrom(_, _)
OrderedFrom(ks, i) ==
    IF i > Len(KeyOrder) THEN <<>>
    ELSE (IF KeyOrder[i] \in ks THEN <<KeyOrder[i]>> ELSE <<>>) \o OrderedFrom(ks, i + 1)

\* `for key in theta.keys()`
OrderedKeys(theta) == OrderedFrom(DOMAIN theta, 1)

\* Stage 0 (lines 287-295): model_b minus model_c in place, zeros where
\* model_c lacks the key, for the keys with "model" in them; model_c deleted.
Stage0(th) ==
    LET b == th["model_b"]
        c == th["model_c"]
        b2 == [k \in DOMAIN b |->
                 IF HasModel(k)
                 THEN (IF k \in DOMAIN c THEN b[k] - c[k] ELSE 0)
                 ELSE b[k]]
    IN [r \in DOMAIN th \ {"model_c"} |-> IF r = "model_b" THEN b2 ELSE th[r]]

\* The samples of lines 298-306, in key order.
RECURSIVE SimSamples(_, _, _)
SimSamples(th, ks, i) ==
    IF i > Len(ks) THEN <<>>
    ELSE LET k == ks[i]
             rest == SimSamples(th, ks, i + 1)
         IN IF HasFirstStage(k) THEN rest
            ELSE IF HasModel(k) /\ k \in DOMAIN th["model_b"]
                 THEN <<CombinedSimilarity(th["model_a"][k], th["model_b"][k])>> \o rest
                 ELSE rest

RECURSIVE Filter(_, _, _)
\* The entries x of s with keep[x], in order.
Filter(s, keep, i) ==
    IF i > Len(s) THEN <<>>
    ELSE (IF s[i] \in keep THEN <<s[i]>> ELSE <<>>) \o Filter(s, keep, i + 1)

RECURSIVE SortedSims(_)
SortedSims(s) ==
    IF Len(s) = 0 THEN <<>>
    ELSE LET m == SeqMin(s)
             i == CHOOSE j \in 1..Len(s) : s[j] = m
         IN <<m>> \o SortedSims(SubSeq(s, 1, i - 1) \o SubSeq(s, i + 1, Len(s)))

\* Twice np.percentile(s, q, method='midpoint') of a non-empty s: the sum of
\* the two sorted entries around the position q/100 * (len - 1).
Percentile2(s, q) ==
    LET a == SortedSims(s)
        pos == q * (Len(s) - 1)
        lo == pos \div 100
        hi == IF pos % 100 = 0 THEN lo ELSE lo + 1
    IN a[lo + 1] + a[hi + 1]

\* Lines 307-309: NaN dropped, then what lies under the 1st percentile, then
\* what lies over the 99th percentile of the rest.
TrimSims(s) ==
    LET finite == Filter(s, {x \in {s[i] : i \in 1..Len(s)} : x # NaN}, 1)
        p1 == Percentile2(finite, 1)
        s1 == Filter(finite, {x \in {finite[i] : i \in 1..Len(finite)} : 2 * x >= p1}, 1)
        p99 == Percentile2(s1, 99)
    IN Filter(s1, {x \in {s1[i] : i \in 1..Len(s1)} : 2 * x <= p99}, 1)

HasFinite(s) == \E i \in 1..Len(s) : s[i] # NaN

\* Stage 2 (lines 312-333) from key ks[i] on: merged_model and thetas after
\* the loop, or the exception merge_key raised and the key it raised on.
RECURSIVE Stage2Loop(_, _, _, _, _, _, _)
Stage2Loop(c, a, s, th, ks, i, out) ==
    IF i > Len(ks) THEN [kind |-> "ok", merged |-> out, thetas |-> th, key |-> <<>>]
    ELSE LET o == MergeKey(c, ks[i], th, a.weights, a.bases, a.best, s)
         IN CASE o.kind = "ok" ->
                   Stage2Loop(c, a, s, o.thetas, ks, i + 1, DictSet(out, ks[i], o.val))
              [] o.kind = "skip" ->
                   Stage2Loop(c, a, s, o.thetas, ks, i + 1, out)
              [] OTHER ->
                   [kind |-> o.kind, merged |-> out, thetas |-> o.thetas, key |-> ks[i]]

\* Stage 3 (lines 335-349) from key ks[i] of model_b on.
RECURSIVE Stage3Loop(_, _, _, _, _, _)
Stage3Loop(c, a, th, ks, i, out) ==
    IF i > Len(ks) THEN out
    ELSE LET k == ks[i]
         IN IF HasModel(k) /\ k \notin DictKeys(out)
            THEN IF HasPositionIds(k) /\ c.skip_position_ids = 1
                 THEN Stage3Loop(c, a, th, ks, i + 1, out)
                 ELSE IF HasPositionIds(k) /\ c.skip_position_ids = 2
                 THEN Stage3Loop(c, a, th, ks, i + 1,
                                 DictSet(out, k, Narrow(c, a.best, CanonIds)))
                 ELSE Stage3Loop(c, a, th, ks, i + 1,
                                 DictSet(out, k, Narrow(c, a.best, th["model_b"][k])))
            ELSE Stage3Loop(c, a, th, ks, i + 1, out)

---------------------------------------------------------------------------
(* One Merger: __post_init__, then one call of merge (SpecMerge)           *)

\* cfg.model_c .. cfg.model_e of the configurations explored.
ExtrasPool ==
    {[m \in ExtraRoles |-> "unset"],
     [m \in ExtraRoles |-> IF m = "model_c" THEN "nofile" ELSE "unset"],
     [m \in ExtraRoles |-> IF m = "model_e" THEN "nofile" ELSE "ok"],
     AllExtras}

\* cfg.best_precision and cfg.best_format of the configurations explored.
BestFilePool == {"16", "32"} \X {"safetensors", "ckpt"}

\* Which of model_a and model_b hold a key.
Presence == {"none", "a", "b", "ab"}

\* The tensor the checkpoint of role r holds for key k.
TensorOf(r, k) ==
    CASE r = "model_a" -> (IF k = K_in7 THEN 2049 * Scale
                           ELSE IF k = K_pos THEN 3 * Scale ELSE 1 * Scale)
      [] r = "model_b" -> (IF k = K_in7 THEN (0 - 3) * Scale
                           ELSE IF k = K_pos THEN CanonIds ELSE 4099 * Scale)
      [] OTHER -> ValOther(r)

\* The keys of the checkpoint of role r: K_in7 and K_pos as pIn7 and pPos say
\* for model_a and model_b, in every further model but K_in7 in `hole`; the
\* key x, if any, in all of them.
KeysOf(r, pIn7, pPos, x, hole) ==
    LET has(p) == CASE r = "model_a" -> p \in {"a", "ab"}
                    [] r = "model_b" -> p \in {"b", "ab"}
                    [] OTHER -> TRUE
    IN {k \in {K_in7} : has(pIn7) /\ r # hole}
       \cup {k \in {K_pos} : has(pPos)}
       \cup x

\* load_sd_model of every registered model.
LoadModels(ms, pIn7, pPos, x, hole) ==
    [r \in ms |-> [k \in KeysOf(r, pIn7, pPos, x, hole) |-> TensorOf(r, k)]]

NoArgs == [weights |-> WeightsOf(1), bases |-> BasesOf(1), best |-> FALSE]

\* How far merge got: kind is "ok" or the exception, at the step that raised,
\* key the key Stage 2 raised on, s2 the keys of merged_model after Stage 2.
MergeRet(kind, at, key, s2) == [kind |-> kind, at |-> at, key |-> key, s2 |-> s2]

InitMerge ==
    /\ \E mode \in MergeModes, cosine \in BOOLEAN, skip \in 0..2,
          best_file \in BestFilePool, extra \in ExtrasPool :
          cfg = Cfg(mode, cosine, skip, best_file[1], best_file[2], extra)
    /\ pc = "new"
    /\ models = {}
    /\ args = NoArgs
    /\ thetas = EmptyMap
    /\ loaded = EmptyMap
    /\ sims = <<>>
    /\ merged = <<>>
    /\ ret = MergeRet("ok", "none", <<>>, {})
    /\ disk = EmptyMap
    /\ outIt = 0

\* __post_init__ (lines 88-91)
PostInit ==
    /\ pc = "new"
    /\ LET r == ParseModels(cfg)
       IN /\ models' = r.models
          /\ ret' = MergeRet(r.kind, "parse_models", <<>>, {})
          /\ pc' = IF r.kind = "ok" THEN "ready" ELSE "exited"
    /\ outIt' = 0
    /\ UNCHANGED <<cfg, args, thetas, loaded, sims, merged, disk>>

\* merge is called and loads the checkpoints (line 284).
MergeLoad ==
    /\ pc = "ready"
    /\ \E best \in BOOLEAN :
          args' = [weights |-> WeightsOf(1), bases |-> BasesOf(1), best |-> best]
    /\ \E pIn7 \in Presence, pPos \in Presence,
          x \in {{}, {K_nai}, {K_in25}, {K_plain}},
          hole \in (models \ {"model_a", "model_b"}) \cup {"none"} :
          thetas' = LoadModels(models, pIn7, pPos, x, hole)
    /\ loaded' = thetas'
    /\ merged' = <<>>
    /\ sims' = <<>>
    /\ ret' = MergeRet("ok", "load", <<>>, {})
    /\ pc' = IF cfg.cosine_mode
             THEN (IF cfg.merge_mode = "add_difference" THEN "stage0" ELSE "stage1")
             ELSE "stage2"
    /\ UNCHANGED <<cfg, models, disk, outIt>>

\* Lines 287-295
Stage0Step ==
    /\ pc = "stage0"
    /\ thetas' = Stage0(thetas)
    /\ pc' = "stage1"
    /\ UNCHANGED <<cfg, models, args, loaded, sims, merged, ret, disk, outIt>>

\* Lines 296-309, with a sample that is no NaN.
Stage1Step ==
    /\ pc = "stage1"
    /\ \E s \in {SimSamples(thetas, OrderedKeys(thetas["model_a"]), 1)} :
          /\ HasFinite(s)
          /\ sims' = TrimSims(s)
    /\ pc' = "stage2"
    /\ UNCHANGED <<cfg, models, args, thetas, loaded, merged, ret, disk, outIt>>

\* Lines 296-309 without such a sample: what np.percentile returns for an
\* empty array depends on the numpy installed.  It raises IndexError ...
Stage1EmptyRaises ==
    /\ pc = "stage1"
    /\ ~HasFinite(SimSamples(thetas, OrderedKeys(thetas["model_a"]), 1))
    /\ ret' = MergeRet("IndexError", "stage1", <<>>, {})
    /\ pc' = "raised"
    /\ UNCHANGED <<cfg, models, args, thetas, loaded, sims, merged, disk, outIt>>

\* ... or it returns NaN, and the two deletions delete nothing.
Stage1EmptyNaN ==
    /\ pc = "stage1"
    /\ ~HasFinite(SimSamples(thetas, OrderedKeys(thetas["model_a"]), 1))
    /\ sims' = <<>>
    /\ pc' = "stage2"
    /\ UNCHANGED <<cfg, models, args, thetas, loaded, merged, ret, disk, outIt>>

\* Lines 311-333
Stage2Step ==
    /\ pc = "stage2"
    /\ \E r \in {Stage2Loop(cfg, args, sims, thetas, OrderedKeys(thetas["model_a"]), 1, <<>>)} :
          /\ merged' = r.merged
          /\ thetas' = r.thetas
          /\ ret' = MergeRet(r.kind, "stage2", r.key, DictKeys(r.merged))
          /\ pc' = IF r.kind = "ok" THEN "stage3" ELSE "raised"
    /\ UNCHANGED <<cfg, models, args, loaded, sims, disk, outIt>>

\* Lines 335-349
Stage3Step ==
    /\ pc = "stage3"
    /\ merged' = Stage3Loop(cfg, args, thetas, OrderedKeys(thetas["model_b"]), 1, merged)
    /\ pc' = "fix"
    /\ UNCHANGED <<cfg, models, args, thetas, loaded, sims, ret, disk, outIt>>

\* Line 351
FixStep ==
    /\ pc = "fix"
    /\ \E r \in {FixModel(merged)} :
          /\ merged' = r.model
          /\ ret' = MergeRet(r.kind, "fix_model", <<>>, ret.s2)
          /\ pc' = IF r.kind = "ok" THEN "save" ELSE "raised"
    /\ UNCHANGED <<cfg, models, args, thetas, loaded, sims, disk, outIt>>

\* Lines 353-369
SaveStep ==
    /\ pc = "save"
    /\ disk' = IF args.best
               THEN WriteFile(disk, BestFile,
                              [data |-> DictMap(merged), format |-> cfg.best_format])
               ELSE WriteFile(disk, WorkFile(outIt),
                              [data |-> DictMap(merged), format |-> "safetensors"])
    /\ ret' = MergeRet("ok", "save", <<>>, ret.s2)
    /\ pc' = "done"
    /\ UNCHANGED <<cfg, models, args, thetas, loaded, sims, merged, outIt>>

NextMerge ==
    \/ PostInit
    \/ MergeLoad
    \/ Stage0Step
    \/ Stage1Step
    \/ Stage1EmptyRaises
    \/ Stage1EmptyNaN
    \/ Stage2Step
    \/ Stage3Step
    \/ FixStep
    \/ SaveStep

SpecMerge == InitMerge /\ [][NextMerge]_vars

---------------------------------------------------------------------------
(* Properties of merge (SpecMerge)                                         *)

\* The first NUM_MODELS_NEEDED roles: the models the merge mode requires.
RequiredRoles == {RoleOrder[i] : i \in 1..NUM_MODELS_NEEDED[cfg.merge_mode]}

\* Stage 2 has run, to its end or to an exception.
Stage2Acted == pc = "stage3" \/ (pc = "raised" /\ ret.at = "stage2")

\* Stage 2 neither stored key k nor raised on it.
SkippedInStage2(k) ==
    /\ k \notin DictKeys(merged)
    /\ ~(pc = "raised" /\ ret.key = k)

\* C3 as the specification states it: a key of model_a absent from any other
\* model the merge mode requires is skipped by Stage 2, in every mode.
C3_AsStated ==
    Stage2Acted =>
        \A k \in DOMAIN loaded["model_a"] :
            (\E r \in RequiredRoles \ {"model_a"} : k \notin DOMAIN loaded[r])
                => SkippedInStage2(k)

\* C3: a key of model_a absent from a model still held when Stage 2 runs
\* (model_c is not, in cosine add_difference) is skipped by Stage 2 without
\* error and without an entry in the output mapping, unless it is the
\* position-ids key under a non-zero skip_position_ids.
C3_MissingKeySkipped ==
    Stage2Acted =>
        \A k \in DOMAIN loaded["model_a"] :
            ((\E r \in Stage2Roles(cfg) : k \notin DOMAIN loaded[r]) /\ ~PosSpecial(k))
                => SkippedInStage2(k)

\* Stage 2 has completed, stored a key, and skipped K_in7, which model_a
\* holds and a model of Stage 2 lacks.
C3_Witness ==
    /\ pc = "stage3"
    /\ K_in7 \in DOMAIN loaded["model_a"]
    /\ \E r \in Stage2Roles(cfg) : K_in7 \notin DOMAIN loaded[r]
    /\ K_in7 \notin DictKeys(merged)
    /\ merged # <<>>

\* C4: with skip_position_ids = 1 and the position-ids key in model_a, the
\* mapping merge hands to the save step holds model_a's tensor for that key,
\* unchanged.
C4_PositionIdsOfModelA ==
    (pc = "save" /\ cfg.skip_position_ids = 1 /\ K_pos \in DOMAIN loaded["model_a"])
        => /\ K_pos \in DictKeys(merged)
           /\ DictGet(merged, K_pos) = loaded["model_a"][K_pos]

\* The configuration registers another number of models than its mode needs.
CountMismatch ==
    pc # "new" /\ Cardinality(models) # NUM_MODELS_NEEDED[cfg.merge_mode]

\* Stage 2 resolves a block index above 24: model_a holds a backbone key of
\* such a block, and so does every other model of Stage 2.
IllegalIndexResolved ==
    /\ pc \notin {"new", "ready", "exited"}
    /\ \E k \in DOMAIN loaded["model_a"] :
          /\ IllegalIndex(k)
          /\ \A r \in Stage2Roles(cfg) : k \in DOMAIN loaded[r]

\* C8: on a fatal path (model count not matching the mode, a resolved block
\* index above 24) no output file is written, and the save step is reached
\* only after parse_models, the stages and fix_model completed without error.
C8_NoOutputOnFatalPath ==
    /\ (CountMismatch \/ IllegalIndexResolved) => (disk = EmptyMap /\ pc \notin {"save", "done"})
    /\ pc \in {"exited", "raised"} => disk = EmptyMap
    /\ pc \in {"save", "done"} =>
          /\ Cardinality(models) = NUM_MODELS_NEEDED[cfg.merge_mode]
          /\ ret.kind = "ok"
          /\ ~(\E k \in DictKeys(merged) : IsNaiKey(k))
    /\ disk # EmptyMap => pc = "done"

\* merge has raised ValueError on a block index above 24, and no file is
\* there.
C8_Witness ==
    /\ pc = "raised"
    /\ ret.kind = "ValueError"
    /\ ret.key = K_in25
    /\ disk = EmptyMap

\* C10: after Stage 3 every backbone key of model_b that Stage 2 left out of
\* the output mapping is in it with the tensor model_b held when it was
\* loaded, narrowed as the precision asks.
C10_VerbatimFromModelB ==
    pc = "fix" =>
        \A k \in DOMAIN loaded["model_b"] :
            (HasBackbone(k) /\ k \notin ret.s2 /\ ~PosSpecial(k))
                => /\ k \in DictKeys(merged)
                   /\ DictGet(merged, k) = Narrow(cfg, args.best, loaded["model_b"][k])

============================================================================
